---- MODULE Spec2Model ----
(***************************************************************************)
(* Model of jaygit/portfolio: the two scripts generate_index.py and        *)
(* update_config.py (fetch -> load prior config -> merge -> sort ->        *)
(* logos -> write config -> render) and the normaliser of yaml_parser.py.  *)
(*                                                                         *)
(* Python values are tagged records: None, str (a sequence of code         *)
(* points), int, list, dict (a function from key names to values) and      *)
(* datetime.  The persisted file projects-config.yaml is a variable of     *)
(* the model; a run of a script is a chain of steps over `pc`.             *)
(***************************************************************************)
EXTENDS Integers, Sequences, FiniteSets, TLC

\* ------------------------------------------------------------------ bounds
\* longest sequence of repositories one fetch returns
MaxFetched == 3
\* longest project name drawn from HashAlphabet
MaxNameLen == 4
\* longest `projects` list of a hand-edited configuration document
MaxPrior == 2

\* ------------------------------------------------------- Python values
PyNone == [t |-> "none"]
PyStr(s) == [t |-> "str", v |-> s]
PyInt(n) == [t |-> "int", v |-> n]
PyList(l) == [t |-> "list", v |-> l]
PyDict(f) == [t |-> "dict", v |-> f]
PyDate(y, m, d) == [t |-> "datetime", v |-> <<y, m, d>>]

\* truth value of a Python object (bool(x)), as used by `or`, `if x`, `not x`
Truthy(x) ==
    CASE x.t = "none" -> FALSE
      [] x.t = "str" -> Len(x.v) > 0
      [] x.t = "int" -> x.v # 0
      [] x.t = "list" -> Len(x.v) > 0
      [] x.t = "dict" -> DOMAIN x.v # {}
      [] OTHER -> TRUE

\* Python `a or b`
PyOr(a, b) == IF Truthy(a) THEN a ELSE b

\* dict.get(key) and dict.get(key, default) on the mapping f
DictGet(f, key, default) == IF key \in DOMAIN f THEN f[key] ELSE default

\* dict.update: the keys of g overwrite or extend f
DictUpdate(f, g) ==
    [k \in (DOMAIN f) \cup (DOMAIN g) |-> IF k \in DOMAIN g THEN g[k] ELSE f[k]]

\* ------------------------------------------------------------- strings
\* str.lower() on code points (ASCII range, the range of the keywords)
LowerChar(c) == IF c >= 65 /\ c <= 90 THEN c + 32 ELSE c

Lower(s) == [i \in 1..Len(s) |-> LowerChar(s[i])]

\* Python `k in s` for two strings
IsSubstring(k, s) ==
    \E i \in 0..(Len(s) - Len(k)) : \A j \in 1..Len(k) : s[i + j] = k[j]

\* Python `a < b` for two strings: lexicographic on code points
RECURSIVE StrLess(_, _)
StrLess(a, b) ==
    IF Len(b) = 0 THEN FALSE
    ELSE IF Len(a) = 0 THEN TRUE
    ELSE IF Head(a) # Head(b) THEN Head(a) < Head(b)
    ELSE StrLess(Tail(a), Tail(b))

\* ------------------------------------------------------------- palette
animals == <<
    <<129409>>, <<128047>>, <<128059>>, <<128060>>, <<128040>>,
    <<128053>>, <<128054>>, <<128058>>, <<129418>>, <<129437>>,
    <<128049>>, <<129409>>, <<128052>>, <<129412>>, <<129427>>,
    <<129420>>, <<128046>>, <<128055>>, <<128023>>, <<128045>>,
    <<128057>>, <<128048>>, <<128007>>, <<128063,65039>>, <<129428>>,
    <<129415>>, <<128059,8205,10052,65039>>, <<128040>>, <<128060>>, <<129445>>,
    <<129446>>, <<129448>>, <<129432>>, <<129441>>, <<128062>>,
    <<129411>>, <<128020>>, <<128019>>, <<128035>>, <<128036>>,
    <<128037>>, <<128038>>, <<128039>>, <<128330,65039>>, <<129413>>,
    <<129414>>, <<129442>>, <<129417>>, <<129444>>, <<129718>>,
    <<129449>>, <<129434>>, <<129436>>, <<128056>>, <<128010>>,
    <<128034>>, <<129422>>, <<128013>>, <<128050>>, <<128009>>,
    <<129429>>, <<129430>>, <<128051>>, <<128011>>, <<128044>>,
    <<129453>>, <<128031>>, <<128032>>, <<128033>>, <<129416>>,
    <<128025>>, <<128026>>, <<129720>>, <<128012>>, <<129419>>,
    <<128027>>, <<128029>>, <<129714>>, <<128030>>, <<129431>>,
    <<128375,65039>>, <<129410>>, <<129439>>, <<129712>>, <<129713>>,
    <<129440>> >>

\* HashStep with (h << 5) + h in place of (h << 5) - h
HashStep_Plus(h, c) ==
    LET lo == 33 * h[2] + (c % 65536)
        hi == 33 * h[1] + (c \div 65536) + (lo \div 65536)
    IN  <<hi % 65536, lo % 65536>>

\* One round of the rolling hash, h = (((h << 5) - h) + ord(ch)) & 0xFFFFFFFF.
\* h is kept as two 16-bit halves <<hi, lo>> so that no intermediate value
\* leaves the range of TLC's integers; (h << 5) - h is 31 * h.
HashStep(h, c) ==
    LET lo == 31 * h[2] + (c % 65536)
        hi == 31 * h[1] + (c \div 65536) + (lo \div 65536)
    IN  <<hi % 65536, lo % 65536>>

RECURSIVE HashName(_, _)
HashName(h, s) == IF Len(s) = 0 THEN h ELSE HashName(HashStep(h, Head(s)), Tail(s))

\* abs(h) % len(animals), h = hi * 2^16 + lo being non-negative
HashIndex(h, n) == (((h[1] % n) * (65536 % n)) + (h[2] % n)) % n

get_animal_for_project(project_name) ==
    animals[HashIndex(HashName(<<0, 0>>, project_name), Len(animals)) + 1]

\* ------------------------------------------------------ classification
training_keywords == <<
    <<116,117,116,111,114,105,97,108>>,  \* "tutorial"
    <<99,111,117,114,115,101>>,          \* "course"
    <<108,101,97,114,110,105,110,103>>,  \* "learning"
    <<112,114,97,99,116,105,99,101>>,    \* "practice"
    <<101,120,101,114,99,105,115,101>>,  \* "exercise"
    <<116,114,97,105,110,105,110,103>>,  \* "training"
    <<119,111,114,107,115,104,111,112>>, \* "workshop"
    <<108,101,115,115,111,110>>,         \* "lesson"
    <<98,111,111,116,99,97,109,112>>,    \* "bootcamp"
    <<115,107,105,108,108>>,             \* "skill"
    <<108,101,97,114,110>>,              \* "learn"
    <<115,116,117,100,121>>,             \* "study"
    <<101,120,97,109,112,108,101>>,      \* "example"
    <<115,97,109,112,108,101>>,          \* "sample"
    <<100,101,109,111>> >>               \* "demo"

S_training == <<116,114,97,105,110,105,110,103>>
S_project == <<112,114,111,106,101,99,116>>
S_Unknown == <<85,110,107,110,111,119,110>>

\* repo.get_topics() inside try/except: the list, or [] when the call raises
GetTopics(repo) == IF repo.topics_raises THEN <<>> ELSE repo.topics

\* for keyword in training_keywords: if keyword in text: return 'training'
AnyKeywordIn(text) ==
    \E i \in 1..Len(training_keywords) : IsSubstring(training_keywords[i], text)

\* get_auto_classification with the fork rule not looking at the star count
get_auto_classification_AnyStars(repo) ==
    LET name == Lower(PyOr(repo.name, PyStr(<<>>)).v)
        description == Lower(PyOr(repo.description, PyStr(<<>>)).v)
        topics == GetTopics(repo)
    IN  IF AnyKeywordIn(name) THEN PyStr(S_training)
        ELSE IF AnyKeywordIn(description) THEN PyStr(S_training)
        ELSE IF \E i \in 1..Len(topics) : AnyKeywordIn(Lower(topics[i].v)) THEN PyStr(S_training)
        ELSE IF repo.fork /\ Len(description) = 0 THEN PyStr(S_training)
        ELSE PyStr(S_project)

get_auto_classification(repo) ==
    LET name == Lower(PyOr(repo.name, PyStr(<<>>)).v)
        description == Lower(PyOr(repo.description, PyStr(<<>>)).v)
        topics == GetTopics(repo)
    IN  IF AnyKeywordIn(name) THEN PyStr(S_training)
        ELSE IF AnyKeywordIn(description) THEN PyStr(S_training)
        ELSE IF \E i \in 1..Len(topics) : AnyKeywordIn(Lower(topics[i].v)) THEN PyStr(S_training)
        ELSE IF repo.fork /\ repo.stargazers_count = PyInt(0) /\ Len(description) = 0
             THEN PyStr(S_training)
        ELSE PyStr(S_project)

\* --------------------------------------------- the persisted config file
\* projects-config.yaml: absent, text that yaml.safe_load rejects, or a YAML
\* document.  `header` is the comment block the writer prepends (it names the
\* script); comments are not part of the document safe_load returns.
FileMissing == [kind |-> "missing", header |-> "", doc |-> PyNone]
FileUnparsable == [kind |-> "unparsable", header |-> "", doc |-> PyNone]
FileYaml(header, doc) == [kind |-> "yaml", header |-> header, doc |-> doc]

EmptyConfig == PyDict([projects |-> PyList(<<>>)])

load_existing_config(file) ==
    IF file.kind = "missing" THEN EmptyConfig
    ELSE IF file.kind = "unparsable" THEN EmptyConfig
    ELSE PyOr(file.doc, EmptyConfig)

\* The values `for p in x` yields, and whether iterating x raises TypeError:
\* a list yields its items, a str its characters, a dict its keys.
IterRaises(x) == x.t \notin {"list", "str", "dict"}

IterItems(x) ==
    CASE x.t = "list" -> x.v
      [] x.t = "str" -> [i \in 1..Len(x.v) |-> PyStr(<<x.v[i]>>)]
      [] OTHER -> <<>>

IterYieldsKeys(x) == x.t = "dict" /\ DOMAIN x.v # {}

\* existing.get('projects', []) followed by {p.get('name'): p for p in ...}:
\* raises when `existing` has no .get (not a mapping), when the value cannot
\* be iterated, when an item has no .get, or when a name is unhashable.
ExistingMapRaises(existing) ==
    IF existing.t # "dict" THEN TRUE
    ELSE LET projects == DictGet(existing.v, "projects", PyList(<<>>))
             items == IterItems(projects)
         IN  \/ IterRaises(projects)
             \/ IterYieldsKeys(projects)
             \/ \E i \in 1..Len(items) :
                    \/ items[i].t # "dict"
                    \/ DictGet(items[i].v, "name", PyNone).t \in {"list", "dict"}

\* The items of the prior list, when building the index does not raise
ExistingItems(existing) ==
    IF ExistingMapRaises(existing) THEN <<>>
    ELSE IterItems(DictGet(existing.v, "projects", PyList(<<>>)))

\* existing_map.get(name, default): the last item of the prior list whose
\* 'name' equals name (a dict comprehension keeps the last value of a key)
ExistingMapGet(existing, name, default) ==
    LET items == ExistingItems(existing)
        hits == {i \in 1..Len(items) : DictGet(items[i].v, "name", PyNone) = name}
    IN  IF hits = {} THEN default
        ELSE items[CHOOSE i \in hits : \A j \in hits : j <= i]

\* --------------------------------------------------------------- merge
\* datetime.isoformat(): 'YYYY-MM-DDT00:00:00' (the model's datetimes are days)
Digits(n, width) == [i \in 1..width |-> 48 + ((n \div (10 ^ (width - i))) % 10)]

isoformat(dt) ==
    Digits(dt.v[1], 4) \o <<45>> \o Digits(dt.v[2], 2) \o <<45>> \o Digits(dt.v[3], 2)
        \o <<84,48,48,58,48,48,58,48,48>>

\* the standard metadata both scripts take from the fetched repository
FetchedFields(repo) ==
    [name |-> repo.name,
     description |-> PyOr(repo.description, PyStr(<<>>)),
     url |-> repo.html_url,
     language |-> PyOr(repo.language, PyStr(S_Unknown)),
     stars |-> PyOr(repo.stargazers_count, PyInt(0)),
     forks |-> PyOr(repo.forks_count, PyInt(0)),
     topics |-> PyList(GetTopics(repo)),
     updated_at |-> IF Truthy(repo.updated_at) THEN PyStr(isoformat(repo.updated_at))
                    ELSE PyStr(<<>>)]

\* MergeGenerateIndex with the classification always recomputed
MergeGenerateIndex_AlwaysAuto(existing, repo) ==
    LET existing_proj == PyOr(ExistingMapGet(existing, repo.name, PyDict(<<>>)), PyDict(<<>>))
        image == PyOr(DictGet(existing_proj.v, "image", PyNone),
                      PyStr(get_animal_for_project(repo.name.v)))
    IN  PyDict(DictUpdate(existing_proj.v,
                 DictUpdate(FetchedFields(repo),
                            [classification |-> get_auto_classification(repo), image |-> image])))

\* MergeGenerateIndex building the record afresh instead of overlaying the prior one
MergeGenerateIndex_Replace(existing, repo) ==
    LET existing_proj == PyOr(ExistingMapGet(existing, repo.name, PyDict(<<>>)), PyDict(<<>>))
        classification == PyOr(DictGet(existing_proj.v, "classification", PyNone),
                               get_auto_classification(repo))
        image == PyOr(DictGet(existing_proj.v, "image", PyNone),
                      PyStr(get_animal_for_project(repo.name.v)))
    IN  PyDict(DictUpdate(FetchedFields(repo),
                          [classification |-> classification, image |-> image]))

\* generate_index.py, body of `for repo in public_repos`
MergeGenerateIndex(existing, repo) ==
    LET existing_proj == PyOr(ExistingMapGet(existing, repo.name, PyDict(<<>>)), PyDict(<<>>))
        classification == PyOr(DictGet(existing_proj.v, "classification", PyNone),
                               get_auto_classification(repo))
        image == PyOr(DictGet(existing_proj.v, "image", PyNone),
                      PyStr(get_animal_for_project(repo.name.v)))
    IN  PyDict(DictUpdate(existing_proj.v,
                 DictUpdate(FetchedFields(repo),
                            [classification |-> classification, image |-> image])))

\* update_config.py, body of `for repo in public_repos`
MergeUpdateConfig(existing, repo) ==
    LET existing_proj == ExistingMapGet(existing, repo.name, PyNone)
        classification == IF Truthy(existing_proj)
                          THEN DictGet(existing_proj.v, "classification", PyNone)
                          ELSE get_auto_classification(repo)
    IN  PyDict(DictUpdate(FetchedFields(repo),
                 [classification |-> classification,
                  image |-> PyStr(get_animal_for_project(repo.name.v))]))

\* the sort key, x.get('updated_at') or ''
SortKey(p) == PyOr(DictGet(p.v, "updated_at", PyNone), PyStr(<<>>)).v

\* list.sort(key=..., reverse=True) is stable: an element goes after every
\* element whose key is greater than or equal to its own
\* InsertDesc placing an element before the elements of equal key
RECURSIVE InsertDesc_Unstable(_, _)
InsertDesc_Unstable(sorted, p) ==
    IF Len(sorted) = 0 THEN <<p>>
    ELSE IF ~StrLess(SortKey(p), SortKey(Head(sorted))) THEN <<p>> \o sorted
    ELSE <<Head(sorted)>> \o InsertDesc_Unstable(Tail(sorted), p)

RECURSIVE InsertDesc(_, _)
InsertDesc(sorted, p) ==
    IF Len(sorted) = 0 THEN <<p>>
    ELSE IF StrLess(SortKey(Head(sorted)), SortKey(p)) THEN <<p>> \o sorted
    ELSE <<Head(sorted)>> \o InsertDesc(Tail(sorted), p)

RECURSIVE SortDesc(_, _)
SortDesc(sorted, rest) ==
    IF Len(rest) = 0 THEN sorted
    ELSE SortDesc(InsertDesc(sorted, Head(rest)), Tail(rest))

\* public_repos = [r for r in repos if not getattr(r, 'private', False)]
RECURSIVE PublicRepos(_)
PublicRepos(rs) ==
    IF Len(rs) = 0 THEN <<>>
    ELSE (IF Head(rs).private THEN <<>> ELSE <<Head(rs)>>) \o PublicRepos(Tail(rs))

\* MergeAll that also carries over the prior records no fetched repository matches
MergeAll_KeepPrior(scr, existing, pub) ==
    LET merged == [i \in 1..Len(pub) |->
                      IF scr = "generate_index" THEN MergeGenerateIndex(existing, pub[i])
                      ELSE MergeUpdateConfig(existing, pub[i])]
        left == SelectSeq(ExistingItems(existing),
                    LAMBDA p : \A i \in 1..Len(pub) : DictGet(p.v, "name", PyNone) # pub[i].name)
    IN  SortDesc(<<>>, merged \o left)

\* MergeAll ordering the records by the updated_at their prior records hold
MergeAll_StaleSort(scr, existing, pub) ==
    LET merged == [i \in 1..Len(pub) |->
                      IF scr = "generate_index" THEN MergeGenerateIndex(existing, pub[i])
                      ELSE MergeUpdateConfig(existing, pub[i])]
        stale(i) == DictGet(PyOr(ExistingMapGet(existing, pub[i].name, PyDict(<<>>)),
                                 PyDict(<<>>)).v, "updated_at", PyNone)
        keyed == [i \in 1..Len(pub) |->
                     PyDict(DictUpdate(merged[i].v, [updated_at |-> stale(i),
                                                     fresh |-> merged[i].v["updated_at"]]))]
        sorted == SortDesc(<<>>, keyed)
    IN  [i \in 1..Len(sorted) |->
            PyDict([k \in (DOMAIN sorted[i].v) \ {"fresh"} |->
                       IF k = "updated_at" THEN sorted[i].v["fresh"] ELSE sorted[i].v[k]])]

\* the merge loop and the sort of either script
MergeAll(scr, existing, pub) ==
    SortDesc(<<>>, [i \in 1..Len(pub) |->
                      IF scr = "generate_index" THEN MergeGenerateIndex(existing, pub[i])
                      ELSE MergeUpdateConfig(existing, pub[i])])

\* ------------------------------------------------------ logo derivation
\* str.isalnum() on code points (ASCII digits and letters)
IsAlnum(c) == (c >= 48 /\ c <= 57) \/ (c >= 65 /\ c <= 90) \/ (c >= 97 /\ c <= 122)

\* _slug: ''.join(c if c.isalnum() else '-' for c in name).lower()
Slug(name) == Lower([i \in 1..Len(name) |-> IF IsAlnum(name[i]) THEN name[i] ELSE 45])

S_proj == <<112,114,111,106>>
S_assets_images == <<97,115,115,101,116,115,47,105,109,97,103,101,115,47>>
S_svg == <<46,115,118,103>>

\* os.path.join('assets', 'images', f'{safe}.svg') with safe = _slug(name or 'proj')
LogoPath(p) ==
    S_assets_images \o Slug(PyOr(DictGet(p.v, "name", PyNone), PyStr(S_proj)).v) \o S_svg

\* SetLogo leaving the record as it is when writing the file raised
SetLogo_KeepOnFailure(p, ok) ==
    IF ok THEN PyDict(DictUpdate(p.v, [logo |-> PyStr(LogoPath(p))])) ELSE p

\* one round of `for p in new_projects`: p['logo'] is the path when the file
\* was written and '' when writing it raised
SetLogo(p, ok) ==
    PyDict(DictUpdate(p.v, [logo |-> IF ok THEN PyStr(LogoPath(p)) ELSE PyStr(<<>>)]))

\* ------------------------------------------------- inputs of the model
N_demo == <<68,101,109,111,45,65,112,112>>   \* "Demo-App"
N_lib == <<108,105,98>>                       \* "lib"
N_x1 == <<120,45,49>>                         \* "x-1"
S_old == <<111,108,100>>                      \* "old"
S_custom == <<99,117,115,116,111,109>>        \* "custom"
S_keep == <<107,101,101,112>>                 \* "keep"
S_url == <<104,116,116,112,115,58,47,47>>     \* "https://"
S_Python == <<80,121,116,104,111,110>>        \* "Python"
S_a_demo == <<97,32,100,101,109,111>>         \* "a demo"

MkRepo(name, description, language, stars, fork, private, updated_at, topics, raises) ==
    [name |-> PyStr(name), description |-> description, html_url |-> PyStr(S_url \o name),
     language |-> language, stargazers_count |-> PyInt(stars), forks_count |-> PyInt(1),
     fork |-> fork, private |-> private, updated_at |-> updated_at,
     topics |-> topics, topics_raises |-> raises]

\* repositories the hosting API may return
RepoA == MkRepo(N_demo, PyNone, PyNone, 5, FALSE, FALSE, PyDate(2024, 1, 1), <<>>, FALSE)
RepoB == MkRepo(N_lib, PyStr(<<>>), PyStr(S_Python), 0, TRUE, FALSE, PyNone, <<PyStr(S_a_demo)>>, TRUE)
RepoC == MkRepo(N_lib, PyStr(S_old), PyStr(S_Python), 1, TRUE, FALSE, PyDate(2024, 1, 1), <<>>, FALSE)
RepoD == MkRepo(N_demo, PyNone, PyNone, 0, FALSE, TRUE, PyDate(2023, 6, 1), <<>>, FALSE)
RepoE == MkRepo(N_x1, PyNone, PyStr(S_Python), 0, FALSE, FALSE, PyDate(2023, 6, 1), <<>>, FALSE)

Repos == {RepoA, RepoB, RepoC, RepoD, RepoE}

\* what one fetch returns: repository names are unique within a fetch
FetchResults ==
    {rs \in UNION {[1..n -> Repos] : n \in 0..MaxFetched} :
        \A i, j \in 1..Len(rs) : i # j => rs[i].name # rs[j].name}

\* items of a hand-edited `projects` list
ItemManual == PyDict([name |-> PyStr(N_demo), classification |-> PyStr(S_project),
                      image |-> PyStr(S_custom), note |-> PyStr(S_keep), stars |-> PyInt(9)])
ItemStale == PyDict([name |-> PyStr(N_lib), image |-> PyStr(<<>>),
                     description |-> PyStr(S_keep), stars |-> PyInt(9)])
ItemTraining == PyDict([name |-> PyStr(N_lib), classification |-> PyStr(S_training),
                        logo |-> PyStr(S_old)])
ItemEmptyClass == PyDict([name |-> PyStr(N_x1), classification |-> PyStr(<<>>)])
ItemNotMapping == PyStr(N_x1)

PriorItems == {ItemManual, ItemStale, ItemTraining, ItemEmptyClass, ItemNotMapping}

PriorLists == UNION {[1..n -> PriorItems] : n \in 0..MaxPrior}

\* documents whose shape is not {projects: [...]}
OddDocs ==
    {PyNone,                                       \* empty file
     PyStr(S_keep),                                \* top level is a scalar
     PyList(<<ItemManual>>),                       \* top level is a list
     PyDict([title |-> PyStr(S_keep)]),            \* no `projects` key
     PyDict([projects |-> PyStr(S_keep)]),         \* projects: keep
     PyDict([projects |-> PyStr(<<>>)]),           \* projects: ''
     PyDict([projects |-> PyNone]),                \* projects: null
     PyDict([projects |-> PyInt(3)])}              \* projects: 3

\* what a user may leave in projects-config.yaml between two runs
EditedFiles ==
    {FileMissing, FileUnparsable}
      \cup {FileYaml("manual", d) : d \in OddDocs}
      \cup {FileYaml("manual", PyDict([projects |-> PyList(l)])) : l \in PriorLists}

\* ------------------------------------------------------------- state
\* the run of a script and the file it persists
VARIABLES config_file, pc, script, repos, public_repos, prior_file,
          new_projects, logo_ok, raised, writes, render
\* one call of a function of the repository: its name, argument and result
VARIABLES called, arg, result
\* history: the fetch, the logo outcomes and the list of the last run of
\* generate_index that wrote the config file, while the file is as it left it
VARIABLE last_gen

runvars == <<config_file, pc, script, repos, public_repos, prior_file,
             new_projects, logo_ok, raised, writes, render, last_gen>>

callvars == <<called, arg, result>>

vars == <<config_file, pc, script, repos, public_repos, prior_file,
          new_projects, logo_ok, raised, writes, render, called, arg, result, last_gen>>

NoLast == [ok |-> FALSE, repos |-> <<>>, logo_ok |-> <<>>, written |-> <<>>]

\* what last_gen holds once the process has ended
RecordRun ==
    IF script = "generate_index" /\ writes = 1
    THEN [ok |-> TRUE, repos |-> repos, logo_ok |-> logo_ok, written |-> new_projects]
    ELSE IF writes = 1 \/ config_file # prior_file THEN NoLast
    ELSE last_gen

Scripts == {"generate_index", "update_config"}

\* the locals of a run before its first step
ResetRun ==
    /\ script' = "none"
    /\ repos' = <<>>
    /\ public_repos' = <<>>
    /\ prior_file' = FileMissing
    /\ new_projects' = <<>>
    /\ logo_ok' = <<>>
    /\ raised' = "none"
    /\ writes' = 0
    /\ render' = "not_attempted"

Init ==
    /\ config_file \in EditedFiles
    /\ pc = "idle"
    /\ script = "none"
    /\ repos = <<>>
    /\ public_repos = <<>>
    /\ prior_file = FileMissing
    /\ new_projects = <<>>
    /\ logo_ok = <<>>
    /\ raised = "none"
    /\ writes = 0
    /\ render = "not_attempted"
    /\ called = "none"
    /\ arg = PyNone
    /\ result = PyNone
    /\ last_gen = NoLast

\* the user edits projects-config.yaml by hand while no script runs
EditConfig ==
    /\ pc = "idle"
    /\ \E f \in EditedFiles : f # config_file /\ config_file' = f
    /\ UNCHANGED <<pc, script, repos, public_repos, prior_file,
                   new_projects, logo_ok, raised, writes, render>>

\* a script starts: fetch_github_repos raised (the exception reaches __main__)
FetchFails ==
    /\ pc = "idle"
    /\ \E s \in Scripts : script' = s
    /\ repos' = <<>>
    /\ public_repos' = <<>>
    /\ prior_file' = config_file
    /\ new_projects' = <<>>
    /\ logo_ok' = <<>>
    /\ raised' = "fetch"
    /\ writes' = 0
    /\ render' = "not_attempted"
    /\ pc' = "done"
    /\ UNCHANGED config_file

\* a script starts: fetch_github_repos returned, private repositories dropped
Fetch ==
    /\ pc = "idle"
    /\ \E s \in Scripts : script' = s
    /\ \E rs \in FetchResults : repos' = rs /\ public_repos' = PublicRepos(rs)
    /\ prior_file' = config_file
    /\ new_projects' = <<>>
    /\ logo_ok' = <<>>
    /\ raised' = "none"
    /\ writes' = 0
    /\ render' = "not_attempted"
    /\ pc' = "fetched"
    /\ UNCHANGED config_file

\* load_existing_config, the name index, the merge loop and the sort
LoadAndMerge ==
    /\ pc = "fetched"
    /\ LET existing == load_existing_config(config_file)
       IN  IF ExistingMapRaises(existing)
           THEN /\ raised' = "index"
                /\ pc' = "done"
                /\ UNCHANGED new_projects
           ELSE /\ new_projects' = MergeAll(script, existing, public_repos)
                /\ pc' = IF script = "generate_index" THEN "merged" ELSE "dumped"
                /\ UNCHANGED raised
    /\ UNCHANGED <<config_file, script, repos, public_repos, prior_file, logo_ok, writes, render>>

\* generate_index: os.makedirs(images_dir, exist_ok=True) raised
MakeDirsFails ==
    /\ pc = "merged"
    /\ raised' = "makedirs"
    /\ pc' = "done"
    /\ UNCHANGED <<config_file, script, repos, public_repos, prior_file,
                   new_projects, logo_ok, writes, render>>

\* generate_index: the logo loop; ok[i] tells whether writing the i-th file worked
WriteLogos ==
    /\ pc = "merged"
    /\ \E ok \in [1..Len(new_projects) -> BOOLEAN] :
          /\ logo_ok' = ok
          /\ new_projects' = [i \in 1..Len(new_projects) |-> SetLogo(new_projects[i], ok[i])]
    /\ pc' = "dumped"
    /\ UNCHANGED <<config_file, script, repos, public_repos, prior_file, raised, writes, render>>

\* open(CONFIG_FILE, 'w') and the two writes succeeded
WriteConfig ==
    /\ pc = "dumped"
    /\ config_file' = FileYaml(script, PyDict([projects |-> PyList(new_projects)]))
    /\ writes' = writes + 1
    /\ pc' = "written"
    /\ UNCHANGED <<script, repos, public_repos, prior_file, new_projects, logo_ok, raised, render>>

\* writing the config raised: open() failed and the file is as it was, or a
\* write failed after open() truncated it
WriteConfigFails ==
    /\ pc = "dumped"
    /\ \/ UNCHANGED config_file
       \/ config_file' = FileYaml(script, PyNone)
    /\ raised' = "write_config"
    /\ pc' = "done"
    /\ UNCHANGED <<script, repos, public_repos, prior_file, new_projects, logo_ok, writes, render>>

\* the render block: Jinja2 missing, rendering raised (logged), or index.html written
Render ==
    /\ pc = "written"
    /\ render' \in {"skipped", "failed", "rendered"}
    /\ pc' = "done"
    /\ UNCHANGED <<config_file, script, repos, public_repos, prior_file,
                   new_projects, logo_ok, raised, writes>>

\* the process ends (exit code ExitCode); its locals are gone
Exit ==
    /\ pc = "done"
    /\ pc' = "idle"
    /\ ResetRun
    /\ UNCHANGED config_file

Next ==
    \/ EditConfig /\ last_gen' = NoLast /\ UNCHANGED callvars
    \/ FetchFails /\ UNCHANGED <<callvars, last_gen>>
    \/ Fetch /\ UNCHANGED <<callvars, last_gen>>
    \/ LoadAndMerge /\ UNCHANGED <<callvars, last_gen>>
    \/ MakeDirsFails /\ UNCHANGED <<callvars, last_gen>>
    \/ WriteLogos /\ UNCHANGED <<callvars, last_gen>>
    \/ WriteConfig /\ UNCHANGED <<callvars, last_gen>>
    \/ WriteConfigFails /\ UNCHANGED <<callvars, last_gen>>
    \/ Render /\ UNCHANGED <<callvars, last_gen>>
    \/ Exit /\ last_gen' = RecordRun /\ UNCHANGED callvars

Spec == Init /\ [][Next]_vars

\* sys.exit(1) in __main__ when the script's function raised
ExitCode == IF raised = "none" THEN 0 ELSE 1

\* ---------------------------------------------------- yaml_parser.py
\* A function that may raise returns [raises |-> TRUE] or a value.
Raised == [raises |-> TRUE, v |-> <<>>]
Returned(v) == [raises |-> FALSE, v |-> v]

\* the dict built for one item p of the list (p has a .get)
NormalizeItem(p) ==
    PyDict([name |-> DictGet(p.v, "name", PyNone),
            description |-> DictGet(p.v, "description", PyStr(<<>>)),
            url |-> DictGet(p.v, "url", PyStr(<<>>)),
            classification |-> DictGet(p.v, "classification", PyStr(<<>>)),
            image |-> DictGet(p.v, "image", PyStr(<<>>)),
            language |-> DictGet(p.v, "language", PyStr(<<>>)),
            stars |-> DictGet(p.v, "stars", PyInt(0)),
            forks |-> DictGet(p.v, "forks", PyInt(0)),
            topics |-> PyOr(DictGet(p.v, "topics", PyList(<<>>)), PyList(<<>>)),
            updated_at |-> DictGet(p.v, "updated_at", PyStr(<<>>))])

\* yaml_text is the text of a file: file.kind is "unparsable" or "yaml"
parse_projects_yaml(yaml_text) ==
    IF yaml_text.kind = "unparsable" THEN Returned(<<>>)
    ELSE LET data == PyOr(yaml_text.doc, PyDict(<<>>))
             projects == IF data.t = "dict" THEN DictGet(data.v, "projects", PyNone)
                         ELSE PyList(<<>>)
         IN  IF projects.t # "list" THEN Returned(<<>>)
             ELSE IF \E i \in 1..Len(projects.v) : projects.v[i].t # "dict" THEN Raised
             ELSE Returned([i \in 1..Len(projects.v) |-> NormalizeItem(projects.v[i])])

\* every exception of open() and of parse_projects_yaml gives []
load_projects_config(file) ==
    IF file.kind = "missing" THEN Returned(<<>>)
    ELSE IF parse_projects_yaml(file).raises THEN Returned(<<>>)
    ELSE parse_projects_yaml(file)

\* an item whose fields are present with null values
ItemNulls == PyDict([name |-> PyStr(N_lib), description |-> PyNone,
                     stars |-> PyNone, topics |-> PyNone])

ParseItems == PriorItems \cup {ItemNulls}

ParseInputs ==
    {FileMissing, FileUnparsable}
      \cup {FileYaml("manual", d) : d \in OddDocs}
      \cup {FileYaml("manual", PyDict([projects |-> PyList(l)])) :
                l \in UNION {[1..n -> ParseItems] : n \in 0..MaxPrior}}

\* the variables of a run, while only single functions are called
NoRun ==
    /\ config_file = FileMissing
    /\ pc = "idle"
    /\ script = "none"
    /\ repos = <<>>
    /\ public_repos = <<>>
    /\ prior_file = FileMissing
    /\ new_projects = <<>>
    /\ logo_ok = <<>>
    /\ raised = "none"
    /\ writes = 0
    /\ render = "not_attempted"
    /\ last_gen = NoLast

InitParse ==
    /\ NoRun
    /\ called = "none"
    /\ arg \in ParseInputs
    /\ result = Returned(<<>>)

CallParse ==
    /\ called = "none"
    /\ arg.kind # "missing"
    /\ called' = "parse_projects_yaml"
    /\ result' = parse_projects_yaml(arg)
    /\ UNCHANGED arg

CallLoadProjects ==
    /\ called = "none"
    /\ called' = "load_projects_config"
    /\ result' = load_projects_config(arg)
    /\ UNCHANGED arg

NextInputParse ==
    /\ called # "none"
    /\ called' = "none"
    /\ arg' \in ParseInputs
    /\ result' = Returned(<<>>)

NextParse ==
    \/ CallParse /\ UNCHANGED runvars
    \/ CallLoadProjects /\ UNCHANGED runvars
    \/ NextInputParse /\ UNCHANGED runvars

SpecParse == InitParse /\ [][NextParse]_vars

\* ------------------------------------- get_auto_classification, alone
ClassifyNames == {<<>>, N_demo, N_lib, <<68,69,77,79>>}                  \* "", "Demo-App", "lib", "DEMO"
ClassifyDescriptions == {PyNone, PyStr(<<>>), PyStr(S_a_demo), PyStr(S_old)}
ClassifyTopics == {<<>>, <<PyStr(S_a_demo)>>, <<PyStr(S_keep), PyStr(<<83,107,105,108,108>>)>>}  \* [], ["a demo"], ["keep", "Skill"]
ClassifyStars == {0, 1, 5}

ClassifyInputs ==
    {MkRepo(n, d, PyNone, st, f, FALSE, PyNone, tp, r) :
        n \in ClassifyNames, d \in ClassifyDescriptions, st \in ClassifyStars,
        f \in BOOLEAN, tp \in ClassifyTopics, r \in BOOLEAN}

InitClassify ==
    /\ NoRun
    /\ called = "none"
    /\ arg \in ClassifyInputs
    /\ result = PyNone

CallClassify ==
    /\ called = "none"
    /\ called' = "get_auto_classification"
    /\ result' = get_auto_classification(arg)
    /\ UNCHANGED arg

NextInputClassify ==
    /\ called # "none"
    /\ called' = "none"
    /\ arg' \in ClassifyInputs
    /\ result' = PyNone

NextClassify ==
    \/ CallClassify /\ UNCHANGED runvars
    \/ NextInputClassify /\ UNCHANGED runvars

SpecClassify == InitClassify /\ [][NextClassify]_vars

\* ================================================================ claims
\* the `projects` list the run has just written to the config file
Written == config_file.doc.v["projects"].v

\* the `projects` list of the file as the run found it (empty when there is none)
PriorList ==
    IF /\ prior_file.kind = "yaml"
       /\ prior_file.doc.t = "dict"
       /\ "projects" \in DOMAIN prior_file.doc.v
       /\ prior_file.doc.v["projects"].t = "list"
    THEN prior_file.doc.v["projects"].v
    ELSE <<>>

PriorHits(name) ==
    {i \in 1..Len(PriorList) :
        /\ PriorList[i].t = "dict"
        /\ "name" \in DOMAIN PriorList[i].v
        /\ PriorList[i].v["name"] = name}

HasPrior(name) == PriorHits(name) # {}

\* the prior record of a name: the last one of that name in the file
PriorRecord(name) == PriorList[CHOOSE i \in PriorHits(name) : \A j \in PriorHits(name) : j <= i].v

\* the field is present and neither null nor the empty string
NonEmptyField(rec, key) ==
    key \in DOMAIN rec /\ rec[key] # PyNone /\ rec[key] # PyStr(<<>>)

WrittenOf(name) == {i \in 1..Len(Written) : Written[i].v["name"] = name}

Labels == {PyStr(S_training), PyStr(S_project)}

\* C1: in every run of either script that writes the config, a fetched
\* repository whose prior record has a non-empty classification is written
\* with exactly that classification, whatever the heuristic would say.
StickyClassification ==
    pc = "written" =>
        \A k \in 1..Len(public_repos) :
            LET n == public_repos[k].name
            IN  (HasPrior(n) /\ NonEmptyField(PriorRecord(n), "classification")) =>
                    /\ WrittenOf(n) # {}
                    /\ \A i \in WrittenOf(n) :
                          Written[i].v["classification"] = PriorRecord(n)["classification"]

\* C1 witness: a later run (the prior file was written by a script) keeps a
\* classification the heuristic disagrees with
StickyClassificationWitness ==
    /\ pc = "written"
    /\ prior_file.header \in Scripts
    /\ \E k \in 1..Len(public_repos) :
          LET n == public_repos[k].name
          IN  /\ HasPrior(n)
              /\ NonEmptyField(PriorRecord(n), "classification")
              /\ get_auto_classification(public_repos[k]) # PriorRecord(n)["classification"]
              /\ \E i \in WrittenOf(n) :
                    Written[i].v["classification"] = PriorRecord(n)["classification"]

\* C2: in every run of either script that writes the config, a fetched
\* repository whose prior record has a non-empty image is written with exactly
\* that image.
StickyImage ==
    pc = "written" =>
        \A k \in 1..Len(public_repos) :
            LET n == public_repos[k].name
            IN  (HasPrior(n) /\ NonEmptyField(PriorRecord(n), "image")) =>
                    /\ WrittenOf(n) # {}
                    /\ \A i \in WrittenOf(n) : Written[i].v["image"] = PriorRecord(n)["image"]

\* C3: a fetched repository with no prior record, or whose prior record has
\* no or an empty classification, is written with the heuristic's label,
\* which is 'training' or 'project'; in either script.
FreshClassification ==
    pc = "written" =>
        \A k \in 1..Len(public_repos) :
            LET n == public_repos[k].name
            IN  (~HasPrior(n) \/ ~NonEmptyField(PriorRecord(n), "classification")) =>
                    /\ WrittenOf(n) # {}
                    /\ \A i \in WrittenOf(n) :
                          /\ Written[i].v["classification"] = get_auto_classification(public_repos[k])
                          /\ Written[i].v["classification"] \in Labels

\* how often x occurs in the sequence s
Count(s, x) == Cardinality({i \in 1..Len(s) : s[i] = x})

IsPermutation(a, b) ==
    /\ Len(a) = Len(b)
    /\ \A i \in 1..Len(a) : Count(a, a[i]) = Count(b, a[i])

\* the names of the fetched repositories that are not private, in fetch order
FetchedPublicNames ==
    LET idx == {i \in 1..Len(repos) : ~repos[i].private}
        RECURSIVE Pick(_)
        Pick(i) == IF i > Len(repos) THEN <<>>
                   ELSE (IF i \in idx THEN <<repos[i].name>> ELSE <<>>) \o Pick(i + 1)
    IN  Pick(1)

WrittenNames == [i \in 1..Len(Written) |-> Written[i].v["name"]]

\* C4: the written list has exactly one record per fetched public repository:
\* its names are a permutation of the fetched public names, so a prior record
\* whose repository was not fetched is gone.
OutputIsFetched ==
    pc = "written" => IsPermutation(WrittenNames, FetchedPublicNames)

\* C4 witness: a prior record names a repository the fetch did not return,
\* and the written list does not have it
OutputIsFetchedWitness ==
    /\ pc = "written"
    /\ \E i \in 1..Len(PriorList) :
          /\ PriorList[i].t = "dict"
          /\ "name" \in DOMAIN PriorList[i].v
          /\ \A k \in 1..Len(repos) : repos[k].name # PriorList[i].v["name"]
          /\ \A j \in 1..Len(Written) : Written[j].v["name"] # PriorList[i].v["name"]

\* position of a name in the sequence of fetched public repositories
FetchPos(name) == CHOOSE k \in 1..Len(public_repos) : public_repos[k].name = name

UpdatedAt(i) == new_projects[i].v["updated_at"].v

\* C5: after the merge the list is in descending order of updated_at, '' being
\* the lowest value, and records of equal updated_at keep their fetch order.
SortedDescStable ==
    pc \in {"merged", "dumped", "written"} =>
        \A i, j \in 1..Len(new_projects) :
            i < j =>
                /\ ~StrLess(UpdatedAt(i), UpdatedAt(j))
                /\ (UpdatedAt(i) = <<>> => UpdatedAt(j) = <<>>)
                /\ (UpdatedAt(i) = UpdatedAt(j) =>
                        FetchPos(new_projects[i].v["name"]) < FetchPos(new_projects[j].v["name"]))

\* C5 witness: fetched in the order 2024-01-01, '', 2023-06-01 and written in
\* the order 2024-01-01, 2023-06-01, ''
SortedDescStableWitness ==
    /\ pc = "written"
    /\ public_repos = <<RepoA, RepoB, RepoE>>
    /\ [i \in 1..Len(new_projects) |-> new_projects[i].v["name"].v] = <<N_demo, N_x1, N_lib>>
    /\ UpdatedAt(3) = <<>>

\* the texts the heuristic searches: name, description and the topics it got
ClassifyTexts(repo) ==
    {repo.name.v}
      \cup (IF repo.description = PyNone THEN {} ELSE {repo.description.v})
      \cup (IF repo.topics_raises THEN {} ELSE {repo.topics[i].v : i \in 1..Len(repo.topics)})

RefTraining(repo) ==
    \/ \E txt \in ClassifyTexts(repo) : \E i \in 1..Len(training_keywords) :
          IsSubstring(training_keywords[i], Lower(txt))
    \/ /\ repo.fork
       /\ repo.stargazers_count.v = 0
       /\ repo.description \in {PyNone, PyStr(<<>>)}

\* C6: get_auto_classification returns a label for every repository, and the
\* label is 'training' exactly when a keyword occurs in the lower-cased name,
\* description or a topic, or the repository is a fork with zero stars and an
\* empty description.
ClassifyMatchesReference ==
    called = "get_auto_classification" =>
        /\ result \in Labels
        /\ (result = PyStr(S_training)) <=> RefTraining(arg)

\* C6 witness: a fork with one star, no description and no keyword is a project
ClassifyMatchesReferenceWitness ==
    /\ called = "get_auto_classification"
    /\ arg.fork
    /\ arg.stargazers_count = PyInt(1)
    /\ arg.description = PyNone
    /\ arg.name = PyStr(N_lib)
    /\ arg.topics = <<>>
    /\ result = PyStr(S_project)

\* the file is absent, unparsable, or not a mapping with a list under `projects`
MalformedPrior ==
    \/ prior_file.kind \in {"missing", "unparsable"}
    \/ prior_file.doc.t # "dict"
    \/ "projects" \notin DOMAIN prior_file.doc.v
    \/ prior_file.doc.v["projects"].t # "list"

\* C7: when the prior file is absent, unparsable or of an unexpected shape,
\* the prior-loading step of a run does not raise: the run goes on with an
\* empty prior list.
PriorLoadNeverRaises ==
    (pc \notin {"idle", "fetched"} /\ MalformedPrior) => raised # "index"

StandardKeys == {"name", "description", "url", "classification", "image", "language",
                 "stars", "forks", "topics", "updated_at", "logo"}

FetchedKeys == {"name", "description", "url", "language", "stars", "forks", "topics",
                "updated_at"}

\* C8: generate_index overlays the fetched metadata on the prior record: the
\* prior record's other keys are written unchanged, and the eight metadata
\* keys hold the fetched values.
OverlayKeepsExtras ==
    (pc = "written" /\ script = "generate_index") =>
        \A k \in 1..Len(public_repos) :
            LET n == public_repos[k].name
            IN  HasPrior(n) =>
                    /\ WrittenOf(n) # {}
                    /\ \A i \in WrittenOf(n) :
                          /\ \A key \in (DOMAIN PriorRecord(n)) \ StandardKeys :
                                /\ key \in DOMAIN Written[i].v
                                /\ Written[i].v[key] = PriorRecord(n)[key]
                          /\ \A key \in FetchedKeys :
                                Written[i].v[key] = FetchedFields(public_repos[k])[key]

\* C8 witness: a prior record with a custom key and a stale star count
OverlayKeepsExtrasWitness ==
    /\ pc = "written"
    /\ script = "generate_index"
    /\ \E k \in 1..Len(public_repos) :
          LET n == public_repos[k].name
          IN  /\ HasPrior(n)
              /\ "note" \in DOMAIN PriorRecord(n)
              /\ "stars" \in DOMAIN PriorRecord(n)
              /\ PriorRecord(n)["stars"] # public_repos[k].stargazers_count
              /\ \E i \in WrittenOf(n) :
                    /\ Written[i].v["note"] = PriorRecord(n)["note"]
                    /\ Written[i].v["stars"] = public_repos[k].stargazers_count

\* C9: a run of generate_index fails exactly when the fetch or the config
\* write fails; the config is written before rendering is attempted; a failed
\* fetch leaves the config file as it was.
RunOutcomeAndOrder ==
    (script = "generate_index" /\ pc = "done") =>
        /\ (ExitCode = 1) <=> (raised \in {"fetch", "write_config"})
        /\ (render # "not_attempted" => writes = 1)
        /\ (raised = "fetch" => writes = 0 /\ config_file = prior_file)

TextKeys == {"description", "url", "classification", "image", "language", "updated_at"}

\* the default the item's field must fall back to, if it must
FieldDefaulted(item, rec, key, type, default) ==
    (item.t # "dict" \/ key \notin DOMAIN item.v \/ item.v[key].t # type) =>
        rec.v[key] = default

\* C10: parse_projects_yaml returns one record per item of the list, without
\* raising, and a field that is absent, null or of the wrong type in the item
\* holds its default in the record.
ParseKeepsEveryItem ==
    (called = "parse_projects_yaml" /\ arg.doc.t = "dict"
        /\ "projects" \in DOMAIN arg.doc.v /\ arg.doc.v["projects"].t = "list") =>
        LET items == arg.doc.v["projects"].v
        IN  /\ ~result.raises
            /\ Len(result.v) = Len(items)
            /\ \A i \in 1..Len(items) :
                  /\ \A key \in TextKeys :
                        FieldDefaulted(items[i], result.v[i], key, "str", PyStr(<<>>))
                  /\ FieldDefaulted(items[i], result.v[i], "stars", "int", PyInt(0))
                  /\ FieldDefaulted(items[i], result.v[i], "forks", "int", PyInt(0))
                  /\ FieldDefaulted(items[i], result.v[i], "topics", "list", PyList(<<>>))

\* ------------------------------------- get_animal_for_project, alone
\* '-', 'a', 'z' and U+10FFFF, the largest code point ord() returns
HashAlphabet == {45, 97, 122, 1114111}

N_zzzzzzzz == <<122,122,122,122,122,122,122,122>>              \* "zzzzzzzz"
N_tildes == <<126,126,126,126,126,126,126,126,126,126>>        \* "~~~~~~~~~~"

HashInputs ==
    UNION {[1..n -> HashAlphabet] : n \in 0..MaxNameLen}
      \cup {N_demo, N_lib, N_x1, N_zzzzzzzz, N_tildes}

InitHash ==
    /\ NoRun
    /\ called = "none"
    /\ arg \in HashInputs
    /\ result = <<>>

\* the first call with a name
CallAnimal ==
    /\ called = "none"
    /\ called' = "get_animal_for_project"
    /\ result' = <<get_animal_for_project(arg)>>
    /\ UNCHANGED arg

\* a second call with the same name
CallAnimalAgain ==
    /\ called = "get_animal_for_project"
    /\ Len(result) = 1
    /\ result' = Append(result, get_animal_for_project(arg))
    /\ UNCHANGED <<called, arg>>

NextInputHash ==
    /\ called = "get_animal_for_project"
    /\ Len(result) = 2
    /\ called' = "none"
    /\ arg' \in HashInputs
    /\ result' = <<>>

NextHash ==
    \/ CallAnimal /\ UNCHANGED runvars
    \/ CallAnimalAgain /\ UNCHANGED runvars
    \/ NextInputHash /\ UNCHANGED runvars

SpecHash == InitHash /\ [][NextHash]_vars

\* 32-bit words as four bytes, least significant first
BytesOf(c) == <<c % 256, (c \div 256) % 256, (c \div 65536) % 256, 0>>

\* (a << 5) masked to 32 bits
ShiftLeft5(a) ==
    LET t1 == 32 * a[1]
        t2 == 32 * a[2] + (t1 \div 256)
        t3 == 32 * a[3] + (t2 \div 256)
        t4 == 32 * a[4] + (t3 \div 256)
    IN  <<t1 % 256, t2 % 256, t3 % 256, t4 % 256>>

\* a + b masked to 32 bits
AddBytes(a, b) ==
    LET t1 == a[1] + b[1]
        t2 == a[2] + b[2] + (t1 \div 256)
        t3 == a[3] + b[3] + (t2 \div 256)
        t4 == a[4] + b[4] + (t3 \div 256)
    IN  <<t1 % 256, t2 % 256, t3 % 256, t4 % 256>>

\* a - b masked to 32 bits: a plus the two's complement of b
SubBytes(a, b) ==
    LET t1 == a[1] + (255 - b[1]) + 1
        t2 == a[2] + (255 - b[2]) + (t1 \div 256)
        t3 == a[3] + (255 - b[3]) + (t2 \div 256)
        t4 == a[4] + (255 - b[4]) + (t3 \div 256)
    IN  <<t1 % 256, t2 % 256, t3 % 256, t4 % 256>>

RECURSIVE RefHash(_, _)
RefHash(h, s) ==
    IF Len(s) = 0 THEN h
    ELSE RefHash(AddBytes(SubBytes(ShiftLeft5(h), h), BytesOf(Head(s))), Tail(s))

\* the word modulo n, most significant byte first
ModBytes(a, n) == ((((((a[4] % n) * 256 + a[3]) % n) * 256 + a[2]) % n) * 256 + a[1]) % n

RefIndex(name) == ModBytes(RefHash(BytesOf(0), name), Len(animals))

\* C11: every call of get_animal_for_project with a name returns
\* animals[h mod len(animals)], h being the 32-bit rolling hash of the name:
\* two calls agree, the element is in the palette, and '' gives the first one.
AnimalIsHashOfName ==
    called = "get_animal_for_project" =>
        \A i \in 1..Len(result) :
            /\ RefIndex(arg) \in 0..(Len(animals) - 1)
            /\ result[i] = animals[RefIndex(arg) + 1]
            /\ result[i] = result[1]
            /\ \E k \in 1..Len(animals) : result[i] = animals[k]
            /\ (arg = <<>> => result[i] = animals[1])

\* C11 witness: "zzzzzzzz", whose hash 2384944384 fills the top bit, called
\* twice: both calls give animals[38] counted from 0
AnimalIsHashOfNameWitness ==
    /\ called = "get_animal_for_project"
    /\ arg = N_zzzzzzzz
    /\ Len(result) = 2
    /\ result[1] = animals[39]
    /\ result[2] = animals[39]

\* 'assets/images/<slug>.svg': the name with every character that is not an
\* ASCII letter or digit replaced by '-', letters in lower case
RefLogoPath(name) ==
    <<97,115,115,101,116,115,47,105,109,97,103,101,115,47>>
      \o [i \in 1..Len(name) |->
            CASE name[i] \in 65..90 -> name[i] + 32
              [] name[i] \in (48..57) \cup (97..122) -> name[i]
              [] OTHER -> 45]
      \o <<46,115,118,103>>

\* C12: after the logo loop of generate_index every merged record has a logo:
\* the slug path when its own file was written, '' when that write raised,
\* whatever the prior record's logo and the other writes; a failed write does
\* not fail the run, and the config that is written carries these logos.
LogoPerProject ==
    (script = "generate_index" /\ pc \in {"dumped", "written"}) =>
        /\ raised = "none"
        /\ Len(logo_ok) = Len(new_projects)
        /\ Len(new_projects) = Len(public_repos)
        /\ \A i \in 1..Len(new_projects) :
              /\ "logo" \in DOMAIN new_projects[i].v
              /\ new_projects[i].v["logo"] =
                    IF logo_ok[i] THEN PyStr(RefLogoPath(new_projects[i].v["name"].v))
                    ELSE PyStr(<<>>)
        /\ (pc = "written" => Written = new_projects)

\* C12 witness: the prior record of lib has a logo, writing lib's file failed
\* and writing Demo-App's file worked; the written config has '' for lib and
\* assets/images/demo-app.svg for Demo-App
LogoPerProjectWitness ==
    /\ script = "generate_index"
    /\ pc = "written"
    /\ HasPrior(PyStr(N_lib))
    /\ NonEmptyField(PriorRecord(PyStr(N_lib)), "logo")
    /\ \E i, j \in 1..Len(Written) :
          /\ Written[i].v["name"] = PyStr(N_lib)
          /\ ~logo_ok[i]
          /\ Written[i].v["logo"] = PyStr(<<>>)
          /\ Written[j].v["name"] = PyStr(N_demo)
          /\ logo_ok[j]
          /\ Written[j].v["logo"] =
                PyStr(<<97,115,115,101,116,115,47,105,109,97,103,101,115,47,
                        100,101,109,111,45,97,112,112,46,115,118,103>>)

\* C13: when generate_index runs again with the same fetched sequence and the
\* same outcomes of the logo writes, and the config file is as the earlier run
\* left it, the list it writes is the list the earlier run wrote.
MergeIdempotent ==
    (script = "generate_index" /\ pc = "written" /\ last_gen.ok
        /\ last_gen.repos = repos /\ last_gen.logo_ok = logo_ok) =>
        /\ PriorList = last_gen.written
        /\ Written = last_gen.written

\* C13 witness: a second run over two or more repositories, one of whose logo
\* writes failed, and a record that carries a key of a hand-edited config
MergeIdempotentWitness ==
    /\ script = "generate_index"
    /\ pc = "written"
    /\ last_gen.ok
    /\ last_gen.repos = repos
    /\ last_gen.logo_ok = logo_ok
    /\ Len(Written) >= 2
    /\ \E i \in 1..Len(logo_ok) : ~logo_ok[i]
    /\ \E i \in 1..Len(Written) : "note" \in DOMAIN Written[i].v
    /\ Written = last_gen.written

====
